---- MODULE Spec2Model ----
(***************************************************************************)
(* A model of the COMTRADE viewer (src/app.py): the cached record loader   *)
(* process_comtrade and the three analysis tabs of the script (frequency   *)
(* estimator, RMS transform, digital event extractor).                     *)
(*                                                                         *)
(* Numbers.  Sample values, scaling factors and times are floats in the    *)
(* program.  Here a float is an exact rational [n |-> num, d |-> den] in   *)
(* lowest terms with d > 0, or one of the three non-finite values numpy    *)
(* produces: NaN = [n |-> 0, d |-> 0], +inf = [n |-> 1, d |-> 0] and       *)
(* -inf = [n |-> -1, d |-> 0].  Rounding error is not modelled.            *)
(* Times are counted in milliseconds from start_timestamp, so the 0.02 s   *)
(* of the RMS window is Cycle = 20 and a timestamp is its offset from the  *)
(* start of the record.                                                    *)
(*                                                                         *)
(* The optional HDR and INF files are only displayed (lines 73-74, 88-95)  *)
(* and are left out, as is the rendering of the figures.                   *)
(***************************************************************************)
EXTENDS Integers, Sequences, FiniteSets, TLC

\* ------------------------------------------------------------------ bounds
MaxSamples == 3      \* samples per record in the script run
MaxVal == 2          \* analog raw samples range over -MaxVal..MaxVal
MaxFactor == 2       \* primary / secondary factors range over 0..MaxFactor
ScaleLen == 3        \* samples per record in SpecScale, analog records
DigLen == 4          \* samples per record in SpecScale, status records
FreqLen == 4         \* samples per record in SpecFreq
MaxStep == 1         \* sample period (ms) in SpecFreq and SpecEvt
RmsLen == 3          \* samples per record in SpecRms
RmsVal == 1          \* raw samples range over -RmsVal..RmsVal in SpecRms
MaxPeriod == 21      \* sample period (ms) in SpecRms
EvtLen == 5          \* samples per record in SpecEvt

\* ------------------------------------------------------- program constants
Cycle == 20          \* 0.02 s, in ms
Kilo == 1000         \* the 1000.0 of the primary scaling

\* ------------------------------------------------------------------ floats
Abs(x) == IF x < 0 THEN -x ELSE x

Min(a, b) == IF a < b THEN a ELSE b

Max(a, b) == IF a > b THEN a ELSE b

Sgn(x) == IF x > 0 THEN 1 ELSE IF x < 0 THEN -1 ELSE 0

RECURSIVE Gcd(_, _)
Gcd(a, b) == IF b = 0 THEN a ELSE Gcd(b, a % b)

Max1(g) == IF g = 0 THEN 1 ELSE g

Flt(n, d) ==
    IF d = 0 THEN [n |-> Sgn(n), d |-> 0]
    ELSE LET g == Gcd(Abs(n), Abs(d))
         IN  [n |-> Sgn(n) * Sgn(d) * (Abs(n) \div g), d |-> Abs(d) \div g]

F(i) == [n |-> i, d |-> 1]

NaN == [n |-> 0, d |-> 0]

IsNaN(a) == a.d = 0 /\ a.n = 0

IsFinite(a) == a.d > 0

FNeg(a) == [n |-> -a.n, d |-> a.d]

\* cross-reduced first, to keep the products small
FMul(a, b) ==
    LET g1 == Max1(Gcd(Abs(a.n), b.d))
        g2 == Max1(Gcd(Abs(b.n), a.d))
    IN  Flt((a.n \div g1) * (b.n \div g2), (a.d \div g2) * (b.d \div g1))

FInv(a) == Flt(a.d, a.n)

FDiv(a, b) == FMul(a, FInv(b))

FAdd(a, b) ==
    IF a.d = 0 /\ b.d = 0
    THEN (IF a = b THEN a ELSE NaN)
    ELSE LET g == Max1(Gcd(a.d, b.d))
         IN  Flt(a.n * (b.d \div g) + b.n * (a.d \div g), (a.d \div g) * b.d)

FSub(a, b) == FAdd(a, FNeg(b))

FEq(a, b) == ~IsNaN(a) /\ ~IsNaN(b) /\ a = b

FLt(a, b) ==
    /\ ~IsNaN(a)
    /\ ~IsNaN(b)
    /\ IF a.d = 0 /\ b.d = 0 THEN a.n < b.n ELSE a.n * b.d < b.n * a.d

FSign(a) == IF IsNaN(a) THEN NaN ELSE F(Sgn(a.n))

\* the largest r in lo..hi with r * r <= k, by bisection
RECURSIVE RootIn(_, _, _)
RootIn(k, lo, hi) ==
    IF lo >= hi THEN lo
    ELSE LET mid == (lo + hi + 1) \div 2
         IN  IF mid * mid <= k THEN RootIn(k, mid, hi) ELSE RootIn(k, lo, mid - 1)

\* exact integer square root of a perfect square, -1 otherwise
ISqrt(k) ==
    LET r == RootIn(k, 0, IF k < 46340 THEN k ELSE 46340)
    IN  IF r * r = k THEN r ELSE -1

\* np.sqrt: NaN stays NaN, a negative number gives NaN; an irrational root
\* is kept symbolically as [surd |-> q], meaning sqrt(q)
FSqrt(a) ==
    IF IsNaN(a) \/ a.n < 0 THEN NaN
    ELSE IF a.d = 0 THEN a
    ELSE IF ISqrt(a.n) >= 0 /\ ISqrt(a.d) >= 0
         THEN [n |-> ISqrt(a.n), d |-> ISqrt(a.d)]
         ELSE [surd |-> a]

\* ----------------------------------------------------------------- helpers
Range(s) == {s[i] : i \in 1..Len(s)}

RECURSIVE FSum(_)
FSum(s) == IF s = <<>> THEN F(0) ELSE FAdd(Head(s), FSum(Tail(s)))

FSeq(s) == [i \in 1..Len(s) |-> F(s[i])]

\* the positions 1..n in order (np.where and boolean masks keep this order)
Positions(n) == [i \in 1..n |-> i]

\* ------------------------------------------------------------ pandas table
\* A DataFrame: its index and its columns by name.
NewFrame(datetime) ==
    [index |-> [i \in 1..Len(datetime) |-> F(i - 1)],
     data |-> [c \in {"DateTime"} |-> datetime]]

\* df[c] = v : a new column, or the replacement of the column of that name
SetColumn(df, c, v) == [df EXCEPT !.data = (c :> v) @@ df.data]

\* df.set_index("DateTime", inplace=True)
SetIndex(df) ==
    [index |-> df.data["DateTime"],
     data |-> [c \in (DOMAIN df.data) \ {"DateTime"} |-> df.data[c]]]

EmptyFrame == [index |-> <<>>, data |-> <<>>]

\* --------------------------------------------------- scaling (lines 36-42)
\* the division by 1000 forgotten
PrimaryOfNoKilo(raw_val, p, s) ==
    IF s # 0
    THEN [i \in 1..Len(raw_val) |-> FMul(raw_val[i], FDiv(F(p), F(s)))]
    ELSE raw_val

\* the ratio taken the wrong way round
PrimaryOfInverted(raw_val, p, s) ==
    IF s # 0
    THEN [i \in 1..Len(raw_val) |->
            FDiv(FMul(raw_val[i], FDiv(F(s), F(p))), F(Kilo))]
    ELSE raw_val

\* (raw_val * (p / s)) / 1000.0 if s != 0 else raw_val
PrimaryOf(raw_val, p, s) ==
    IF s # 0
    THEN [i \in 1..Len(raw_val) |->
            FDiv(FMul(raw_val[i], FDiv(F(p), F(s))), F(Kilo))]
    ELSE raw_val

RECURSIVE ScaleAnalogs(_, _, _)
ScaleAnalogs(dfs, analog, i) ==
    IF i > Len(analog) THEN dfs
    ELSE LET ch == analog[i]
             raw_val == FSeq(ch.raw)
         IN  ScaleAnalogs(
                 [s |-> SetColumn(dfs.s, ch.id, raw_val),
                  p |-> SetColumn(dfs.p, ch.id,
                                  PrimaryOf(raw_val, ch.primary, ch.secondary))],
                 analog, i + 1)

\* ------------------------------------------- digital classifier (46-51)
\* the test for a constantly asserted channel forgotten
IsEmptyUnchanging(data) == ~(\E i \in 1..Len(data) : data[i] # data[1])

\* not (np.any(data != data[0]) or data[0] == 1)
IsEmpty(data) ==
    ~((\E i \in 1..Len(data) : data[i] # data[1]) \/ data[1] = F(1))

EmptyPrefix == "[EMPTY] "

LabelOf(sid, is_empty) == IF is_empty THEN EmptyPrefix \o sid ELSE sid

MetaOf(ch) ==
    LET is_empty == IsEmpty(FSeq(ch.raw))
    IN  [id |-> ch.id, label |-> LabelOf(ch.id, is_empty), empty |-> is_empty]

RECURSIVE StoreDigitals(_, _, _)
StoreDigitals(dfs, status, i) ==
    IF i > Len(status) THEN dfs
    ELSE LET data == FSeq(status[i].raw)
         IN  StoreDigitals([s |-> SetColumn(dfs.s, status[i].id, data),
                            p |-> SetColumn(dfs.p, status[i].id, data)],
                           status, i + 1)

\* l.replace(old, ""): every non-overlapping occurrence, left to right
RECURSIVE StrRemove(_, _)
StrRemove(l, old) ==
    IF Len(l) < Len(old) THEN l
    ELSE IF SubSeq(l, 1, Len(old)) = old
         THEN StrRemove(SubSeq(l, Len(old) + 1, Len(l)), old)
         ELSE SubSeq(l, 1, 1) \o StrRemove(SubSeq(l, 2, Len(l)), old)

\* ------------------------------------------ frequency estimator (101-105)
\* the sign-difference test with >= in place of >
CrossingsNonStrict(y) ==
    SelectSeq(Positions(Len(y) - 1),
              LAMBDA i : ~FLt(FSub(FSign(y[i + 1]), FSign(y[i])), F(0)))

\* np.where(np.diff(np.sign(y)) > 0)[0], as 1-based positions
Crossings(y) ==
    SelectSeq(Positions(Len(y) - 1),
              LAMBDA i : FLt(F(0), FSub(FSign(y[i + 1]), FSign(y[i]))))

\* idx*sample_period - y[idx]*sample_period/(y[idx+1]-y[idx]), idx = i - 1
CrossTime(y, period, i) ==
    FSub(FMul(F(i - 1), F(period)),
         FDiv(FMul(y[i], F(period)), FSub(y[i + 1], y[i])))

\* np.diff
FDiff(s) == [k \in 1..(Len(s) - 1) |-> FSub(s[k + 1], s[k])]

\* 1.0 / np.diff(ts)
FreqValues(ts) == [k \in 1..(Len(ts) - 1) |-> FDiv(F(1), FDiff(ts)[k])]

\* -------------------------------------------------- RMS transform (123-125)
\* max(1, int(0.02 / sample_period)), for a positive period
Window(period) == Max(1, Cycle \div period)

\* a rolling mean over however many samples are available (min_periods = 1)
RollingMeanPartial(x, w) ==
    [i \in 1..Len(x) |->
        LET lo == Max(1, i - w + 1)
        IN  FDiv(FSum(SubSeq(x, lo, i)), F(i - lo + 1))]

\* .rolling(window=w).mean(): an output needs w samples (min_periods = w)
RollingMean(x, w) ==
    [i \in 1..Len(x) |->
        IF i < w THEN NaN ELSE FDiv(FSum(SubSeq(x, i - w + 1, i)), F(w))]

\* y_plot.pow(2).rolling(window=w).mean().apply(np.sqrt)
Rms(y, w) ==
    LET sq == [i \in 1..Len(y) |-> FMul(y[i], y[i])]
        mean == RollingMean(sq, w)
    IN  [i \in 1..Len(y) |-> FSqrt(mean[i])]

\* ----------------------------------------- digital event extractor (144-150)
\* s.diff().fillna(0)
DiffFill(v) ==
    [i \in 1..Len(v) |->
        IF i = 1 THEN F(0)
        ELSE LET d == FSub(v[i], v[i - 1]) IN IF IsNaN(d) THEN F(0) ELSE d]

\* s.index[diff == 1], with the start synthesized when s.iloc[0] == 1
EdgesUp(index, v) ==
    LET pos == SelectSeq(Positions(Len(v)), LAMBDA i : FEq(DiffFill(v)[i], F(1)))
        up == [k \in 1..Len(pos) |-> index[pos[k]]]
    IN  IF FEq(v[1], F(1)) THEN <<index[1]>> \o up ELSE up

\* the falling edges alone, no end synthesized
EdgesDownNoSynth(index, v) ==
    LET pos == SelectSeq(Positions(Len(v)), LAMBDA i : FEq(DiffFill(v)[i], F(-1)))
    IN  [k \in 1..Len(pos) |-> index[pos[k]]]

\* s.index[diff == -1], with the end synthesized when s.iloc[-1] == 1
EdgesDown(index, v) ==
    LET pos == SelectSeq(Positions(Len(v)), LAMBDA i : FEq(DiffFill(v)[i], F(-1)))
        down == [k \in 1..Len(pos) |-> index[pos[k]]]
    IN  IF FEq(v[Len(v)], F(1)) THEN down \o <<index[Len(v)]>> ELSE down

\* zip(up, down)
Zip(up, down) ==
    [k \in 1..Min(Len(up), Len(down)) |-> [Start |-> up[k], Finish |-> down[k]]]

Events(index, v) == Zip(EdgesUp(index, v), EdgesDown(index, v))

\* ------------------------------------------------------------------- state
VARIABLES
    pc,            \* position in the script run
    files,         \* extensions of the uploaded files (f_map's keys)
    rec,           \* what the decoder makes of the uploaded CFG and DAT
    cache,         \* st.cache_data's entry for these arguments: <<>> or <<result>>
    tmp,           \* the temporary paths that exist on disk
    exc,           \* the exception being propagated, "none" if none
    df_p,          \* primary-unit table
    df_s,          \* secondary-unit table
    digital_meta,  \* the classifier's list
    analog_ids,    \* rec.analog_channel_ids as returned
    sample_period, \* rec.time[1] - rec.time[0] as returned (ms)
    fig_f,         \* frequency tab: cross, ts, f_val
    fig_w,         \* waveform tab: win and the traces by channel
    fig_l,         \* digital tab: the intervals by signal
    outcome        \* what the page shows: none, ok, warning, critical

vars == <<pc, files, rec, cache, tmp, exc, df_p, df_s, digital_meta,
          analog_ids, sample_period, fig_f, fig_w, fig_l, outcome>>

loaded == <<df_p, df_s, digital_meta, analog_ids, sample_period>>

figs == <<fig_f, fig_w, fig_l>>

NoFigF == [f_ref |-> "", cross |-> <<>>, ts |-> <<>>, f_val |-> <<>>]

NoFigW == [mode |-> "", rms |-> FALSE, window |-> 0, traces |-> <<>>]

NoFigL == <<>>

\* ------------------------------------------------------------------ inputs
Vals == -MaxVal..MaxVal

Facs == 0..MaxFactor

\* sample_times of a uniformly sampled record (ms since start_timestamp)
TimesOf(n, period) == [i \in 1..n |-> (i - 1) * period]

AnalogChannels(ids, n, vals, ps, ss) ==
    [id : ids, raw : [1..n -> vals], primary : ps, secondary : ss]

StatusChannels(ids, n) == [id : ids, raw : [1..n -> {0, 1}]]

\* sequences over S of length at most k
SeqUpTo(S, k) == UNION {[1..m -> S] : m \in 0..k}

\* a record the decoder rejects (lines: the number of lines of the CFG text)
Rejected(lines) ==
    [ok |-> FALSE, lines |-> lines, time |-> <<>>, analog |-> <<>>, status |-> <<>>]

Accepted(n, period, analog, status) ==
    [ok |-> TRUE, lines |-> 1, time |-> TimesOf(n, period),
     analog |-> analog, status |-> status]

Init ==
    /\ pc = "idle"
    /\ files = {}
    /\ rec = Rejected(0)
    /\ cache = <<>>
    /\ tmp = {}
    /\ exc = "none"
    /\ df_p = EmptyFrame
    /\ df_s = EmptyFrame
    /\ digital_meta = <<>>
    /\ analog_ids = <<>>
    /\ sample_period = 0
    /\ fig_f = NoFigF
    /\ fig_w = NoFigW
    /\ fig_l = NoFigL
    /\ outcome = "none"

\* ----------------------------------------------------------- the script run
\* lines 61-70, 158-159: the upload and the check for both required files.
\* The bundle is one the decoder rejects or one it accepts, with at most one
\* analog and one status channel.
Upload ==
    /\ pc = "idle"
    /\ \E fs \in SUBSET {"cfg", "dat"} :
        /\ files' = fs
        /\ IF {"cfg", "dat"} \subseteq fs
           THEN /\ \/ \E l \in 0..1 : rec' = Rejected(l)
                   \/ \E n \in 0..MaxSamples, period \in {0, Cycle \div 2} :
                      \E a \in SeqUpTo(AnalogChannels({"IA"}, n, {-1, 0, 1}, {1}, {0, 1}), 1),
                         s \in SeqUpTo(StatusChannels({"D1"}, n), 1) :
                          rec' = Accepted(n, period, a, s)
                /\ pc' = "try"
                /\ outcome' = "none"
           ELSE /\ rec' = rec
                /\ pc' = "done"
                /\ outcome' = IF fs = {} THEN "none" ELSE "warning"
    /\ UNCHANGED <<cache, tmp, exc, loaded, figs>>

\* lines 73-78: station = cfg_lines[0].split(',')[0]
Station ==
    /\ pc = "try"
    /\ IF rec.lines = 0
       THEN pc' = "except" /\ exc' = "IndexError"
       ELSE pc' = "call" /\ exc' = exc
    /\ UNCHANGED <<files, rec, cache, tmp, loaded, figs, outcome>>

\* lines 15, 81: the cached call; a hit returns the stored result
Call ==
    /\ pc = "call"
    /\ IF cache # <<>>
       THEN /\ pc' = "t_freq"
            /\ df_p' = cache[1].df_p
            /\ df_s' = cache[1].df_s
            /\ digital_meta' = cache[1].digital_meta
            /\ analog_ids' = cache[1].analog_ids
            /\ sample_period' = cache[1].sample_period
            /\ outcome' = "ok"
       ELSE /\ pc' = "mktmp"
            /\ UNCHANGED <<loaded, outcome>>
    /\ UNCHANGED <<files, rec, cache, tmp, exc, figs>>

\* line 21: tempfile.TemporaryDirectory()
MkTmp ==
    /\ pc = "mktmp"
    /\ \/ tmp' = {"tmpdir"} /\ pc' = "write_cfg" /\ exc' = exc
       \/ tmp' = tmp /\ pc' = "except" /\ exc' = "OSError"
    /\ UNCHANGED <<files, rec, cache, loaded, figs, outcome>>

\* line 23: the CFG text is written; an I/O error may leave the file behind
WriteCfg ==
    /\ pc = "write_cfg"
    /\ \/ tmp' = tmp \cup {"t.cfg"} /\ pc' = "write_dat" /\ exc' = exc
       \/ tmp' \in {tmp, tmp \cup {"t.cfg"}} /\ pc' = "exit_with" /\ exc' = "OSError"
    /\ UNCHANGED <<files, rec, cache, loaded, figs, outcome>>

\* line 24: the DAT bytes are written
WriteDat ==
    /\ pc = "write_dat"
    /\ \/ tmp' = tmp \cup {"t.dat"} /\ pc' = "load" /\ exc' = exc
       \/ tmp' \in {tmp, tmp \cup {"t.dat"}} /\ pc' = "exit_with" /\ exc' = "OSError"
    /\ UNCHANGED <<files, rec, cache, loaded, figs, outcome>>

\* lines 26-27: the external decoder accepts or rejects the input
Load ==
    /\ pc = "load"
    /\ pc' = "exit_with"
    /\ exc' = IF rec.ok THEN exc ELSE "DecodeError"
    /\ UNCHANGED <<files, rec, cache, tmp, loaded, figs, outcome>>

\* a with block that removes its directory only when no exception passes
ExitWithOnSuccessOnly ==
    /\ pc = "exit_with"
    /\ tmp' = IF exc = "none" THEN {} ELSE tmp
    /\ pc' = IF exc = "none" THEN "scale" ELSE "except"
    /\ UNCHANGED <<files, rec, cache, exc, loaded, figs, outcome>>

\* line 21: leaving the with block removes the directory and what is in it
ExitWith ==
    /\ pc = "exit_with"
    /\ tmp' = {}
    /\ pc' = IF exc = "none" THEN "scale" ELSE "except"
    /\ UNCHANGED <<files, rec, cache, exc, loaded, figs, outcome>>

\* lines 30-42: the two tables and the analog columns
Scale ==
    /\ pc = "scale"
    /\ LET real_times == FSeq(rec.time)
           dfs == ScaleAnalogs([s |-> NewFrame(real_times), p |-> NewFrame(real_times)],
                               rec.analog, 1)
       IN  df_s' = dfs.s /\ df_p' = dfs.p
    /\ pc' = "digitals"
    /\ UNCHANGED <<files, rec, cache, tmp, exc, digital_meta, analog_ids,
                   sample_period, figs, outcome>>

\* lines 45-51: the digital columns and the activity check; data[0] needs a
\* sample, and without one the first channel is stored before line 50 raises
Digitals ==
    /\ pc = "digitals"
    /\ IF rec.status # <<>> /\ rec.time = <<>>
       THEN /\ pc' = "except"
            /\ exc' = "IndexError"
            /\ LET dfs == StoreDigitals([s |-> df_s, p |-> df_p],
                                        SubSeq(rec.status, 1, 1), 1)
               IN  df_s' = dfs.s /\ df_p' = dfs.p
            /\ digital_meta' = <<>>
       ELSE /\ pc' = "return"
            /\ exc' = exc
            /\ LET dfs == StoreDigitals([s |-> df_s, p |-> df_p], rec.status, 1)
               IN  df_s' = dfs.s /\ df_p' = dfs.p
            /\ digital_meta' = [i \in 1..Len(rec.status) |-> MetaOf(rec.status[i])]
    /\ UNCHANGED <<files, rec, cache, tmp, analog_ids, sample_period, figs, outcome>>

\* lines 53-56, 81, 85: set_index, the sample period (rec.time[1] needs two
\* samples), the result stored in the cache and the success banner
Return ==
    /\ pc = "return"
    /\ df_p' = SetIndex(df_p)
    /\ df_s' = SetIndex(df_s)
    /\ IF Len(rec.time) < 2
       THEN /\ pc' = "except"
            /\ exc' = "IndexError"
            /\ UNCHANGED <<cache, analog_ids, sample_period, outcome>>
       ELSE /\ pc' = "t_freq"
            /\ exc' = exc
            /\ analog_ids' = [i \in 1..Len(rec.analog) |-> rec.analog[i].id]
            /\ sample_period' = rec.time[2] - rec.time[1]
            /\ cache' = <<[df_p |-> df_p', df_s |-> df_s',
                           digital_meta |-> digital_meta,
                           analog_ids |-> analog_ids',
                           sample_period |-> sample_period']>>
            /\ outcome' = "ok"
    /\ UNCHANGED <<files, rec, tmp, digital_meta, figs>>

\* lines 99-109: the frequency tab.  With no analog channel the select box
\* gives None and df_s[None] raises.
TabFreq ==
    /\ pc = "t_freq"
    /\ IF analog_ids = <<>>
       THEN pc' = "except" /\ exc' = "KeyError" /\ fig_f' = fig_f
       ELSE \E f_ref \in Range(analog_ids) :
            IF f_ref \notin DOMAIN df_s.data
            THEN pc' = "except" /\ exc' = "KeyError" /\ fig_f' = fig_f
            ELSE LET y == df_s.data[f_ref]
                     cross == Crossings(y)
                     ts == [k \in 1..Len(cross) |->
                               CrossTime(y, sample_period, cross[k])]
                 IN  /\ fig_f' = IF Len(cross) > 1
                                 THEN [f_ref |-> f_ref, cross |-> cross, ts |-> ts,
                                       f_val |-> FreqValues(ts)]
                                 ELSE [f_ref |-> f_ref, cross |-> cross,
                                       ts |-> <<>>, f_val |-> <<>>]
                     /\ pc' = "t_wave"
                     /\ exc' = exc
    /\ UNCHANGED <<files, rec, cache, tmp, loaded, fig_w, fig_l, outcome>>

Modes == {"Primary (kV/A)", "Secondary (V/A)"}

\* lines 111-133: the waveform tab.  0.02 / sample_period raises for a zero
\* period when the RMS toggle is on and a channel is selected.
TabWave ==
    /\ pc = "t_wave"
    /\ \E mode \in Modes, rms \in BOOLEAN, sel_analog \in SUBSET Range(analog_ids) :
        LET curr_df == IF mode = "Primary (kV/A)" THEN df_p ELSE df_s
        IN  IF sel_analog = {}
            THEN pc' = "t_logic" /\ exc' = exc /\ fig_w' = fig_w
            ELSE IF ~(sel_analog \subseteq DOMAIN curr_df.data)
            THEN pc' = "except" /\ exc' = "KeyError" /\ fig_w' = fig_w
            ELSE IF rms /\ sample_period = 0
            THEN pc' = "except" /\ exc' = "ZeroDivisionError" /\ fig_w' = fig_w
            ELSE /\ pc' = "t_logic"
                 /\ exc' = exc
                 /\ fig_w' =
                      [mode |-> mode, rms |-> rms,
                       window |-> IF rms THEN Window(sample_period) ELSE 0,
                       traces |-> [c \in sel_analog |->
                                     IF rms
                                     THEN Rms(curr_df.data[c], Window(sample_period))
                                     ELSE curr_df.data[c]]]
    /\ UNCHANGED <<files, rec, cache, tmp, loaded, fig_f, fig_l, outcome>>

\* lines 135-154: the digital tab
TabLogic ==
    /\ pc = "t_logic"
    /\ \E sel_labels \in SUBSET {digital_meta[i].label : i \in 1..Len(digital_meta)} :
        LET sel_digs == {StrRemove(l, EmptyPrefix) : l \in sel_labels}
        IN  IF ~(sel_digs \subseteq DOMAIN df_p.data)
            THEN pc' = "except" /\ exc' = "KeyError" /\ fig_l' = fig_l
            ELSE IF sel_digs # {} /\ df_p.index = <<>>
            THEN pc' = "except" /\ exc' = "IndexError" /\ fig_l' = fig_l
            ELSE /\ pc' = "done"
                 /\ exc' = exc
                 /\ fig_l' = [d \in sel_digs |-> Events(df_p.index, df_p.data[d])]
    /\ UNCHANGED <<files, rec, cache, tmp, loaded, fig_f, fig_w, outcome>>

\* lines 156-157: st.error("Critical Error: ...")
Except ==
    /\ pc = "except"
    /\ outcome' = "critical"
    /\ pc' = "done"
    /\ UNCHANGED <<files, rec, cache, tmp, exc, loaded, figs>>

\* a widget interaction runs the script again on the same upload; only the
\* cache survives the run
Rerun ==
    /\ pc = "done"
    /\ {"cfg", "dat"} \subseteq files
    /\ pc' = "try"
    /\ exc' = "none"
    /\ df_p' = EmptyFrame
    /\ df_s' = EmptyFrame
    /\ digital_meta' = <<>>
    /\ analog_ids' = <<>>
    /\ sample_period' = 0
    /\ fig_f' = NoFigF
    /\ fig_w' = NoFigW
    /\ fig_l' = NoFigL
    /\ outcome' = "none"
    /\ UNCHANGED <<files, rec, cache, tmp>>

Next ==
    \/ Upload
    \/ Station
    \/ Call
    \/ MkTmp
    \/ WriteCfg
    \/ WriteDat
    \/ Load
    \/ ExitWith
    \/ Scale
    \/ Digitals
    \/ Return
    \/ TabFreq
    \/ TabWave
    \/ TabLogic
    \/ Except
    \/ Rerun

Spec == Init /\ [][Next]_vars

\* ------------------------------------------- the components, one at a time
\* The state in which process_comtrade's body starts on record r (line 30).
AtScale(r) ==
    /\ pc = "scale"
    /\ files = {"cfg", "dat"}
    /\ rec = r
    /\ cache = <<>>
    /\ tmp = {}
    /\ exc = "none"
    /\ df_p = EmptyFrame
    /\ df_s = EmptyFrame
    /\ digital_meta = <<>>
    /\ analog_ids = <<>>
    /\ sample_period = 0
    /\ fig_f = NoFigF
    /\ fig_w = NoFigW
    /\ fig_l = NoFigL
    /\ outcome = "none"

\* What process_comtrade returns for a record of two samples or more.
ResultOf(r) ==
    LET real_times == FSeq(r.time)
        a == ScaleAnalogs([s |-> NewFrame(real_times), p |-> NewFrame(real_times)],
                          r.analog, 1)
        d == StoreDigitals(a, r.status, 1)
    IN  [df_p |-> SetIndex(d.p),
         df_s |-> SetIndex(d.s),
         digital_meta |-> [i \in 1..Len(r.status) |-> MetaOf(r.status[i])],
         analog_ids |-> [i \in 1..Len(r.analog) |-> r.analog[i].id],
         sample_period |-> r.time[2] - r.time[1]]

\* The state in which the tabs start once process_comtrade has returned (line 97).
AtTabs(r) ==
    /\ pc = "t_freq"
    /\ files = {"cfg", "dat"}
    /\ rec = r
    /\ cache = <<ResultOf(r)>>
    /\ tmp = {}
    /\ exc = "none"
    /\ df_p = ResultOf(r).df_p
    /\ df_s = ResultOf(r).df_s
    /\ digital_meta = ResultOf(r).digital_meta
    /\ analog_ids = ResultOf(r).analog_ids
    /\ sample_period = ResultOf(r).sample_period
    /\ fig_f = NoFigF
    /\ fig_w = NoFigW
    /\ fig_l = NoFigL
    /\ outcome = "ok"

NextLoad == Scale \/ Digitals \/ Return

Ids == {"DateTime", "IA", "D1"}

\* one analog channel over all values and factors; a status channel alone over
\* all patterns; up to two analog channels and a status channel over all ids
InitScale ==
    \/ \E n \in 1..ScaleLen :
        \E a \in AnalogChannels({"IA"}, n, Vals, Facs, Facs) :
            AtScale(Accepted(n, 1, <<a>>, <<>>))
    \/ \E n \in 1..DigLen :
        \E s \in StatusChannels({"D1"}, n) :
            AtScale(Accepted(n, 1, <<>>, <<s>>))
    \/ \E a \in SeqUpTo(AnalogChannels(Ids, 2, {-1, 1}, {MaxFactor}, {0, 1}), 2),
          s \in SeqUpTo(StatusChannels(Ids, 2), 1) :
            AtScale(Accepted(2, 1, a, s))

SpecScale == InitScale /\ [][NextLoad]_vars

\* one analog channel over all values, zero and positive periods
InitFreq ==
    \E n \in 2..FreqLen, period \in 0..MaxStep :
        \E a \in AnalogChannels({"IA"}, n, Vals, {1}, {1}) :
            AtTabs(Accepted(n, period, <<a>>, <<>>))

NextFreq == TabFreq

SpecFreq == InitFreq /\ [][NextFreq]_vars

\* one analog channel over all values, periods that give every window size
InitRms ==
    \E n \in 2..RmsLen, period \in 1..MaxPeriod :
        \E a \in AnalogChannels({"IA"}, n, -RmsVal..RmsVal, {1}, {1}) :
            AtTabs(Accepted(n, period, <<a>>, <<>>))

NextRms == TabFreq \/ TabWave

SpecRms == InitRms /\ [][NextRms]_vars

\* one status channel over all patterns, beside a flat analog channel
InitEvt ==
    \E n \in 2..EvtLen, period \in 1..MaxStep :
        \E a \in AnalogChannels({"IA"}, n, {0}, {1}, {1}),
           s \in StatusChannels({"D1"}, n) :
            AtTabs(Accepted(n, period, <<a>>, <<s>>))

NextEvt == TabFreq \/ TabWave \/ TabLogic

SpecEvt == InitEvt /\ [][NextEvt]_vars

\* ---------------------------------------------------------------- claims
WithBlock == {"write_cfg", "write_dat", "load", "exit_with"}

\* C1: whenever control is outside the with block of process_comtrade (after
\* a successful decode, after the decoder rejected the input, after an error
\* while writing), nothing the call created in temporary storage exists.
C1_TmpReleased == pc \notin WithBlock => tmp = {}

\* the decoder rejected the input and the exception has reached the caller
C1_Witness == pc = "except" /\ exc = "DecodeError" /\ tmp = {} /\ ~rec.ok

\* C2: a record the decoder accepts never ends in the "Critical Error"
\* outcome (an I/O failure of the temporary files set aside).
C2_OnlyDecodeFailuresAreCritical ==
    (outcome = "critical" /\ rec.ok) => exc = "OSError"

\* all column names of the tables are distinct
UniqueIds(r) ==
    LET ids == [i \in 1..(Len(r.analog) + Len(r.status)) |->
                   IF i <= Len(r.analog) THEN r.analog[i].id
                   ELSE r.status[i - Len(r.analog)].id]
    IN  /\ \A i, j \in 1..Len(ids) : i # j => ids[i] # ids[j]
        /\ "DateTime" \notin Range(ids)

HasColumn(df, c, n) == c \in DOMAIN df.data /\ Len(df.data[c]) = n

\* v = raw * (p / s) / 1000 when s # 0, v = raw when s = 0, by cross-multiplication
IsPrimaryValue(v, raw, p, s) ==
    IF s # 0 THEN v.d > 0 /\ v.n * Kilo * s = raw * p * v.d
    ELSE v = [n |-> raw, d |-> 1]

ScalingHolds(r) ==
    LET n == Len(r.time)
    IN  /\ \A i \in 1..Len(r.analog) :
            LET ch == r.analog[i]
            IN  /\ HasColumn(df_s, ch.id, n)
                /\ HasColumn(df_p, ch.id, n)
                /\ \A k \in 1..n :
                    /\ df_s.data[ch.id][k] = [n |-> ch.raw[k], d |-> 1]
                    /\ IsPrimaryValue(df_p.data[ch.id][k], ch.raw[k],
                                      ch.primary, ch.secondary)
        /\ \A i \in 1..Len(r.status) :
            LET ch == r.status[i]
            IN  /\ HasColumn(df_s, ch.id, n)
                /\ HasColumn(df_p, ch.id, n)
                /\ \A k \in 1..n :
                    /\ df_s.data[ch.id][k] = [n |-> ch.raw[k], d |-> 1]
                    /\ df_p.data[ch.id][k] = [n |-> ch.raw[k], d |-> 1]

\* C3 as stated: in the returned tables every analog channel holds its raw
\* samples (secondary) and raw * (p / s) / 1000, or raw when s = 0 (primary),
\* every digital channel holds its raw samples in both, and every series is
\* as long as sample_times.
C3_ScalingOfEveryChannel == pc = "t_freq" => ScalingHolds(rec)

\* C3 amended: the same, for records whose channel ids are pairwise distinct
\* and none of which is "DateTime".
C3_ScalingOfDistinctIds == (pc = "t_freq" /\ UniqueIds(rec)) => ScalingHolds(rec)

C3_Witness ==
    /\ pc = "t_freq"
    /\ UniqueIds(rec)
    /\ rec.status # <<>>
    /\ \E i \in 1..Len(rec.analog) :
        /\ rec.analog[i].secondary # 0
        /\ rec.analog[i].primary # rec.analog[i].secondary
        /\ df_p.data[rec.analog[i].id] # df_s.data[rec.analog[i].id]

\* primary_value * 1000 / (p / s) == raw_value at every sample of channel ch
RoundTrip(ch) ==
    \A k \in 1..Len(ch.raw) :
        FEq(FDiv(FMul(df_p.data[ch.id][k], F(Kilo)),
                 FDiv(F(ch.primary), F(ch.secondary))),
            F(ch.raw[k]))

\* C4 as stated (and only where no column is overwritten): for any analog
\* channel with a secondary factor other than 0, whatever the primary factor,
\* scaling the primary value back gives the raw value.
C4_RoundTripAnyPrimary ==
    (pc = "t_freq" /\ UniqueIds(rec)) =>
        \A i \in 1..Len(rec.analog) :
            rec.analog[i].secondary # 0 => RoundTrip(rec.analog[i])

\* C4 amended: the round trip holds when the primary factor is not 0 either.
C4_RoundTripNonzeroPrimary ==
    (pc = "t_freq" /\ UniqueIds(rec)) =>
        \A i \in 1..Len(rec.analog) :
            (rec.analog[i].secondary # 0 /\ rec.analog[i].primary # 0)
                => RoundTrip(rec.analog[i])

C4_Witness ==
    /\ pc = "t_freq"
    /\ UniqueIds(rec)
    /\ \E i \in 1..Len(rec.analog) :
        /\ rec.analog[i].secondary = MaxFactor
        /\ rec.analog[i].primary = 1
        /\ \E k \in 1..Len(rec.time) : rec.analog[i].raw[k] = MaxVal

\* C5: a status channel with at least one sample is classified empty exactly
\* when all its samples are 0, and its label is "[EMPTY] " + id exactly when
\* it is empty, else the id.
C5_EmptyIffAllZero ==
    pc \notin {"scale", "digitals"} /\ Len(digital_meta) = Len(rec.status) =>
        \A i \in 1..Len(rec.status) :
            LET ch == rec.status[i]
                m == digital_meta[i]
            IN  Len(ch.raw) >= 1 =>
                    /\ m.id = ch.id
                    /\ m.empty <=> (\A k \in 1..Len(ch.raw) : ch.raw[k] = 0)
                    /\ m.empty => m.label = "[EMPTY] " \o ch.id
                    /\ ~m.empty => m.label = ch.id

C5_Witness ==
    /\ pc = "return"
    /\ Len(digital_meta) = 1
    /\ Len(rec.time) = DigLen
    /\ digital_meta[1].empty
    /\ digital_meta[1].label = "[EMPTY] D1"

\* the positions where a maximal run of 1s starts in the {0,1} series v
RunStarts(v) == {i \in 1..Len(v) : v[i] = 1 /\ (i = 1 \/ v[i - 1] = 0)}

\* the k-th of them
KthStart(v, k) ==
    CHOOSE i \in RunStarts(v) : Cardinality({j \in RunStarts(v) : j <= i}) = k

\* the last position of the run that starts at i
RunLast(v, i) ==
    CHOOSE j \in i..Len(v) :
        /\ \A m \in i..j : v[m] = 1
        /\ j = Len(v) \/ v[j + 1] = 0

\* the intervals of a {0,1} series v over the timestamps t: one per maximal
\* run of 1s, in order, from the run's first timestamp to the timestamp of the
\* falling edge after it (the last timestamp when the run reaches the end)
OneIntervalPerRun(evts, t, v) ==
    /\ Len(evts) = Cardinality(RunStarts(v))
    /\ \A k \in 1..Len(evts) :
        LET i == KthStart(v, k)
            j == RunLast(v, i)
        IN  /\ evts[k].Start = [n |-> t[i], d |-> 1]
            /\ evts[k].Finish = [n |-> t[IF j = Len(v) THEN j ELSE j + 1], d |-> 1]
            /\ ~FLt(evts[k].Finish, evts[k].Start)
    /\ (\A i \in 1..Len(v) : v[i] = 0) => evts = <<>>
    /\ (\A i \in 1..Len(v) : v[i] = 1) =>
           evts = <<[Start |-> [n |-> t[1], d |-> 1],
                     Finish |-> [n |-> t[Len(v)], d |-> 1]]>>

\* C6: for a non-empty {0,1} series over strictly increasing timestamps the
\* extractor yields exactly one interval per maximal run of 1s, in timestamp
\* order; after boundary synthesis there are as many starts as ends, the k-th
\* start pairs with the k-th end, start <= end; constant 0 gives nothing and
\* constant 1 one interval over the whole series.
C6_OneIntervalPerRun ==
    pc = "done" =>
        \A i \in 1..Len(rec.status) :
            LET ch == rec.status[i]
            IN  ch.id \in DOMAIN fig_l =>
                    /\ Len(EdgesUp(df_p.index, df_p.data[ch.id]))
                         = Len(EdgesDown(df_p.index, df_p.data[ch.id]))
                    /\ OneIntervalPerRun(fig_l[ch.id], rec.time, ch.raw)

\* a series that starts and ends asserted, with a gap: both edges synthesized
C6_Witness ==
    /\ pc = "done"
    /\ "D1" \in DOMAIN fig_l
    /\ Len(fig_l["D1"]) = 2
    /\ rec.status[1].raw[1] = 1
    /\ rec.status[1].raw[Len(rec.time)] = 1

\* the series the waveform tab plotted for channel c
Plotted(c) == (IF fig_w.mode = "Primary (kV/A)" THEN df_p ELSE df_s).data[c]

\* the square of an RMS output
SquareOf(v) == IF "surd" \in DOMAIN v THEN v.surd ELSE FMul(v, v)

\* out = sqrt(mean of the squares of y[lo..hi])
IsRmsOf(out, y, lo, hi) ==
    /\ out # NaN
    /\ "surd" \in DOMAIN out \/ out.n >= 0
    /\ FMul(SquareOf(out), F(hi - lo + 1))
         = FSum([m \in 1..(hi - lo + 1) |-> FMul(y[lo + m - 1], y[lo + m - 1])])

IsConstant(y) == \A i \in 1..Len(y) : y[i] = y[1]

FAbs(a) == [n |-> Abs(a.n), d |-> a.d]

RmsShown == pc \in {"t_logic", "done"} /\ fig_w.rms

C8_WindowIsRounded ==
    (RmsShown /\ sample_period > 0) =>
        \E r \in 0..Cycle :
            /\ 2 * Abs(r * sample_period - Cycle) <= sample_period
            /\ fig_w.window = Max(1, r)

FreqShown == pc \in {"t_wave", "t_logic", "done"} /\ fig_f.f_ref # ""

\* C9: at every index the rising sign-difference test selects, the
\* interpolation denominator y[idx+1] - y[idx] is strictly positive, and every
\* interpolated crossing time is finite.
C9_DenominatorPositive ==
    FreqShown =>
        LET y == df_s.data[fig_f.f_ref]
        IN  /\ \A k \in 1..Len(fig_f.cross) :
                LET i == fig_f.cross[k]
                IN  /\ i \in 1..(Len(y) - 1)
                    /\ y[i + 1].d = 1 /\ y[i].d = 1
                    /\ y[i + 1].n - y[i].n > 0
            /\ \A k \in 1..Len(fig_f.ts) : IsFinite(fig_f.ts[k])

\* two crossings, one of them through an exact zero sample
C9_Witness ==
    /\ FreqShown
    /\ Len(fig_f.ts) >= 2
    /\ \E k \in 1..Len(fig_f.cross) : df_s.data[fig_f.f_ref][fig_f.cross[k]].n = 0

\* C10: with two crossings or more and a positive period the crossing times
\* are strictly increasing and every frequency value is finite and positive.
C10_CrossTimesIncrease ==
    (FreqShown /\ Len(fig_f.cross) > 1 /\ sample_period > 0) =>
        /\ \A k \in 1..(Len(fig_f.ts) - 1) : FLt(fig_f.ts[k], fig_f.ts[k + 1])
        /\ \A k \in 1..Len(fig_f.f_val) :
            IsFinite(fig_f.f_val[k]) /\ fig_f.f_val[k].n > 0

====
